---------------------------- MODULE Spec2Model ----------------------------
(***************************************************************************)
(* Model of the two notebooks of the repository:                           *)
(*   Code/Residual_Connection.ipynb  ResidualCell (hybrid_forward, unroll)  *)
(*   Code/Projection_Layer.ipynb     ArgProj, Output, DistributionOutput    *)
(*                                                                         *)
(* Tensors are modelled by their shape bookkeeping and by integer entries. *)
(* A per-step tensor of shape (N, C) is a sequence over the batch; the     *)
(* channel axis is kept only as the width C.  A merged tensor is a         *)
(* sequence of sequences indexed along axis 0 and then axis 1, so layout   *)
(* "NTC" is data[b][t] and layout "TNC" is data[t][b].  A Python list of   *)
(* per-step tensors is data[t][b].  Python's None is the empty sequence    *)
(* and a present value v is <<v>>.                                         *)
(***************************************************************************)
EXTENDS Integers, Sequences, FiniteSets, TLC

VARIABLES
    base_kind,   \* behaviour of the innermost (unwrapped) recurrent cell
    depth,       \* number of ResidualCell wrappers stacked on it
    modified,    \* modified[i]: the _modified flag of cell i (1 = innermost)
    counter,     \* counter[i]: the _counter of cell i
    args_dim,    \* ArgProj.args_dim, an ordered sequence of <<name, width>>
    proj,        \* ArgProj.proj, the Dense blocks built at construction
    in_units,    \* in_units[i]: input width Dense i was initialised with (0: deferred)
    domain_map,  \* ArgProj.domain_map, the callable handed to the constructor
    out_cfg,     \* the Output / DistributionOutput object under use
    last         \* the most recent call: its arguments and its outcome

vars == <<base_kind, depth, modified, counter, args_dim, proj, in_units, domain_map,
         out_cfg, last>>

\* ---------------------------------------------------------------- bounds
MaxLen == 2
MaxBatch == 2
MaxDepth == 2
MaxCounter == 1

None == << >>
Some(v) == <<v>>

Min(a, b) == IF a < b THEN a ELSE b

\* sq[:-1] and sq[-1]
Front(sq) == SubSeq(sq, 1, Len(sq) - 1)
Final(sq) == sq[Len(sq)]

\* ---------------------------------------------------------------- tensors
Layouts == {"NTC", "TNC"}

\* layout.find('T')
TimeAxis(layout) == IF layout = "TNC" THEN 0 ELSE 1

Tensor(data, width) == [isTensor |-> TRUE, data |-> data, width |-> width]
StepList(data, width) == [isTensor |-> FALSE, data |-> data, width |-> width]

Transpose(m) ==
    IF Len(m) = 0 THEN << >>
    ELSE [j \in 1..Len(m[1]) |-> [i \in 1..Len(m) |-> m[i][j]]]

\* x.shape[axis] of a merged tensor
ShapeAt(x, axis) == IF axis = 0 THEN Len(x.data) ELSE Len(x.data[1])

\* F.stack(*steps, axis=axis): a list of (N, C) tensors to one merged tensor
Stack(steps, axis) ==
    Tensor(IF axis = 0 THEN steps.data ELSE Transpose(steps.data), steps.width)

\* F.split(x, axis=axis, num_outputs=shape[axis], squeeze_axis=1), as a list
Split(x, axis) ==
    StepList(IF axis = 0 THEN x.data ELSE Transpose(x.data), x.width)

\* F.SequenceMask(x, sequence_length=valid_length, use_sequence_length=True, axis=axis)
SequenceMask(x, valid_length, axis) ==
    Tensor([i \in 1..Len(x.data) |-> [j \in 1..Len(x.data[i]) |->
               LET t == IF axis = 0 THEN i ELSE j
                   b == IF axis = 0 THEN j ELSE i
               IN  IF t - 1 >= valid_length[b] THEN 0 ELSE x.data[i][j]]],
           x.width)

\* shapes of two operands of F.elemwise_add agree (it does not broadcast)
SameShape(a, b) ==
    /\ a.isTensor = b.isTensor
    /\ a.width = b.width
    /\ Len(a.data) = Len(b.data)
    /\ \A i \in 1..Len(a.data) : Len(a.data[i]) = Len(b.data[i])

\* entry (b, t), 1-based, of a sequence in either convention
At(x, layout, b, t) ==
    IF x.isTensor /\ layout = "NTC" THEN x.data[b][t] ELSE x.data[t][b]

\* number of timesteps a sequence holds
Steps(x, layout) ==
    IF x.isTensor THEN ShapeAt(x, TimeAxis(layout)) ELSE Len(x.data)

\* ---------------------------------------------------------------- outcomes
Raise(exc, st) == [raised |-> exc, st |-> st]

\* F.elemwise_add on two merged tensors
ElemwiseAdd(a, b) ==
    IF ~(a.isTensor /\ b.isTensor) THEN [raised |-> "TypeError"]
    ELSE IF ~SameShape(a, b) THEN [raised |-> "MXNetError"]
    ELSE [raised |-> "none",
          value |-> Tensor([i \in 1..Len(a.data) |-> [j \in 1..Len(a.data[i]) |->
                               a.data[i][j] + b.data[i][j]]], a.width)]

\* [F.elemwise_add(i, j) for i, j in zip(outputs, inputs)]: zip stops at the
\* shorter operand; each pair is one (N, C) addition
ZipAdd(a, b) ==
    LET n == Min(Len(a.data), Len(b.data))
    IN  IF a.isTensor \/ b.isTensor THEN [raised |-> "TypeError"]
        ELSE IF \E i \in 1..n : Len(a.data[i]) # Len(b.data[i]) \/ a.width # b.width
             THEN [raised |-> "MXNetError"]
        ELSE [raised |-> "none",
              value |-> StepList([i \in 1..n |-> [j \in 1..Len(a.data[i]) |->
                                     a.data[i][j] + b.data[i][j]]], a.width)]

\* ---------------------------------------------------------------- helpers called by unroll
\* _format_sequence and _mask_sequence_variable_length are the helpers of
\* mxnet.gluon.rnn.rnn_cell that unroll calls; they are modelled by what they
\* do to the sequences they are given.
\* _format_sequence(length, inputs, layout, merge); merge is "None", "True" or "False"
FormatSequence(length, inputs, layout, merge) ==
    LET axis == TimeAxis(layout)
    IN  IF inputs.isTensor
        THEN IF merge = "False"
             THEN IF length # ShapeAt(inputs, axis)
                  THEN [raised |-> "AssertionError"]
                  ELSE [raised |-> "none", inputs |-> Split(inputs, axis), axis |-> axis]
             ELSE [raised |-> "none", inputs |-> inputs, axis |-> axis]
        ELSE IF Len(inputs.data) # length
             THEN [raised |-> "AssertionError"]
             ELSE IF Len(inputs.data) = 0
             THEN [raised |-> "IndexError"]      \* inputs[0] of an empty list
             ELSE IF merge = "True"
             THEN [raised |-> "none", inputs |-> Stack(inputs, axis), axis |-> axis]
             ELSE [raised |-> "none", inputs |-> inputs, axis |-> axis]

\* _mask_sequence_variable_length(F, data, length, valid_length, time_axis, merge)
MaskSequenceVariableLength(data, length, valid_length, time_axis, merge) ==
    LET stacked == IF data.isTensor THEN data ELSE Stack(data, time_axis)
        outputs == SequenceMask(stacked, valid_length, time_axis)
    IN  IF merge THEN outputs ELSE Split(outputs, time_axis)

\* ---------------------------------------------------------------- the wrapped cell
\* The innermost cell is any RecurrentCell; four behaviours stand for it:
\*   "identity": output = input, state unchanged
\*   "ones":     output = all ones, state unchanged
\*   "accum":    state' = state + input, output = state'
\*   "wide":     output = input but with hidden size 2 * input size
BaseKinds == {"identity", "ones", "accum", "wide"}

CellStep(kind, x, s, w) ==
    [out    |-> CASE kind = "ones"  -> [b \in 1..Len(x) |-> 1]
                  [] kind = "accum" -> [b \in 1..Len(x) |-> s[b] + x[b]]
                  [] OTHER          -> x,
     width  |-> IF kind = "wide" THEN 2 * w ELSE w,
     states |-> IF kind = "accum" THEN [b \in 1..Len(x) |-> s[b] + x[b]] ELSE s]

\* for i in range(length): output, states = self(inputs[i], states)
RECURSIVE RunSteps(_, _, _, _, _)
RunSteps(kind, xs, s, w, i) ==
    IF i > Len(xs) THEN [outs |-> << >>, all |-> << >>]
    ELSE LET r    == CellStep(kind, xs[i], s, w)
             rest == RunSteps(kind, xs, r.states, w, i + 1)
         IN  [outs |-> <<r.out>> \o rest.outs, all |-> <<r.states>> \o rest.all]

\* F.SequenceLast(stack(all_states), sequence_length=valid_length)
SequenceLast(all, valid_length) ==
    [b \in 1..Len(valid_length) |-> all[valid_length[b]][b]]

\* RecurrentCell.reset of cell lvl: its counter and those of its children
Reset(st, lvl) ==
    [st EXCEPT !.counter = [i \in DOMAIN st.counter |->
                               IF i <= lvl THEN -1 ELSE st.counter[i]]]

SetModified(st, lvl, v) == [st EXCEPT !.modified[lvl] = v]

\* RecurrentCell.unroll of the innermost cell (cell 1): the inputs are split
\* into steps, begin_state() is asked for when no state is given (it refuses a
\* cell whose _modified flag is set), the cell is called once per step, and
\* with a valid_length the outputs are masked and merged and the states are
\* those at each sequence's last valid step
BaseUnroll(kind, st, length, inputs, begin_state, layout, merge_outputs, valid_length) ==
    LET st1 == Reset(st, 1)
        f   == FormatSequence(length, inputs, layout, "False")
    IN  IF f.raised # "none" THEN Raise(f.raised, st1)
        ELSE IF begin_state = None /\ st1.modified[1]
        THEN Raise("AssertionError", st1)      \* begin_state() of a modified cell
        ELSE
        LET batch == Len(f.inputs.data[1])
            s0    == IF begin_state = None THEN [b \in 1..batch |-> 0] ELSE begin_state[1]
            run   == RunSteps(kind, f.inputs.data, s0, inputs.width, 1)
            w     == CellStep(kind, f.inputs.data[1], s0, inputs.width).width
            st2   == [st1 EXCEPT !.counter[1] = length - 1]
            outs  == IF valid_length = None
                     THEN StepList(run.outs, w)
                     ELSE MaskSequenceVariableLength(StepList(run.outs, w), length,
                                                     valid_length[1], f.axis, TRUE)
            states == IF valid_length = None THEN run.all[length]
                      ELSE SequenceLast(run.all, valid_length[1])
            g     == FormatSequence(length, outs, layout, merge_outputs)
        IN  IF g.raised # "none" THEN Raise(g.raised, st2)
            ELSE [raised |-> "none", st |-> st2, outputs |-> g.inputs,
                  states |-> states, raw |-> g.inputs]

\* ---------------------------------------------------------------- ResidualCell
\* self.base_cell._modified = True after the delegated unroll has returned
RestoreModified(st, lvl) == SetModified(st, lvl - 1, TRUE)

\* faulty variant of InferMerge: an unset merge_outputs is taken to mean "list"
InferMergeDefaultList(merge_outputs, outputs) ==
    merge_outputs = "True"

\* merge_outputs = isinstance(outputs, tensor_types) if merge_outputs is None
\*                 else merge_outputs
InferMerge(merge_outputs, outputs) ==
    IF merge_outputs = "None" THEN outputs.isTensor ELSE merge_outputs = "True"

\* faulty variant of MaskInputs: the padded inputs are not masked
MaskInputsSkipped(inputs, length, valid_length, axis, merge) ==
    inputs

\* if valid_length is not None: inputs = _mask_sequence_variable_length(...)
MaskInputs(inputs, length, valid_length, axis, merge) ==
    IF valid_length # None
    THEN MaskSequenceVariableLength(inputs, length, valid_length[1], axis, merge)
    ELSE inputs

\* faulty variant of CombineOutputs: the inputs are added a second time
CombineOutputsTwice(merge, outputs, inputs) ==
    LET once == IF merge THEN ElemwiseAdd(outputs, inputs) ELSE ZipAdd(outputs, inputs)
    IN  IF once.raised # "none" THEN once
        ELSE IF merge THEN ElemwiseAdd(once.value, inputs) ELSE ZipAdd(once.value, inputs)

\* faulty variant of CombineOutputs: the list branch drops the last timestep
CombineOutputsShort(merge, outputs, inputs) ==
    IF merge THEN ElemwiseAdd(outputs, inputs)
    ELSE ZipAdd(outputs, StepList(Front(inputs.data), inputs.width))

\* if merge_outputs: whole-tensor addition, else per-timestep addition
CombineOutputs(merge, outputs, inputs) ==
    IF merge THEN ElemwiseAdd(outputs, inputs) ELSE ZipAdd(outputs, inputs)

\* ResidualCell.unroll of cell lvl (lvl >= 2) over the cell below it
RECURSIVE CellUnroll(_, _, _, _, _, _, _, _, _)
ResidualUnroll(kind, lvl, st, length, inputs, begin_state, layout, merge_outputs, valid_length) ==
    LET st1 == SetModified(Reset(st, lvl), lvl - 1, FALSE)
        r   == CellUnroll(kind, lvl - 1, st1, length, inputs, begin_state, layout,
                          merge_outputs, valid_length)
    IN  IF r.raised # "none" THEN Raise(r.raised, r.st)
        ELSE
        LET st2   == RestoreModified(r.st, lvl)
            merge == InferMerge(merge_outputs, r.outputs)
            f     == FormatSequence(length, inputs, layout,
                                    IF merge THEN "True" ELSE "False")
        IN  IF f.raised # "none" THEN Raise(f.raised, st2)
            ELSE
            LET masked == MaskInputs(f.inputs, length, valid_length, f.axis, merge)
                sum    == CombineOutputs(merge, r.outputs, masked)
            IN  IF sum.raised # "none" THEN Raise(sum.raised, st2)
                ELSE [raised |-> "none", st |-> st2, outputs |-> sum.value,
                      states |-> r.states, raw |-> r.raw,
                      inner |-> r.outputs, inner_states |-> r.states,
                      added |-> masked, merge |-> merge]

\* base_cell.unroll dispatches on the class of the cell
CellUnroll(kind, lvl, st, length, inputs, begin_state, layout, merge_outputs, valid_length) ==
    IF lvl = 1
    THEN BaseUnroll(kind, st, length, inputs, begin_state, layout, merge_outputs,
                    valid_length)
    ELSE ResidualUnroll(kind, lvl, st, length, inputs, begin_state, layout,
                        merge_outputs, valid_length)

\* faulty variant of StepAdd: the inner output is returned without the input
StepAddDropped(output, out_width, inputs, in_width) ==
    [raised |-> "none", value |-> output]

\* output = F.elemwise_add(output, inputs), on one (N, C) step
StepAdd(output, out_width, inputs, in_width) ==
    IF out_width # in_width \/ Len(output) # Len(inputs)
    THEN [raised |-> "MXNetError"]
    ELSE [raised |-> "none", value |-> [b \in 1..Len(inputs) |-> output[b] + inputs[b]]]

\* cell(inputs, states): RecurrentCell.__call__ counts the call, then forwards;
\* for a ResidualCell the forward is hybrid_forward
RECURSIVE CellCall(_, _, _, _, _, _)
hybrid_forward(kind, lvl, st, inputs, width, states) ==
    LET r == CellCall(kind, lvl - 1, st, inputs, width, states)
    IN  IF r.raised # "none" THEN r
        ELSE LET sum == StepAdd(r.output, r.width, inputs, width)
             IN  IF sum.raised # "none"
                 THEN [r EXCEPT !.raised = sum.raised]
                 ELSE [r EXCEPT !.output = sum.value,
                                !.inner_output = r.output,
                                !.inner_states = r.states,
                                !.passed_inputs = inputs,
                                !.passed_states = states]

CellCall(kind, lvl, st, inputs, width, states) ==
    LET st1 == [st EXCEPT !.counter[lvl] = @ + 1]
    IN  IF lvl = 1
        THEN LET c == CellStep(kind, inputs, states, width)
             IN  [raised |-> "none", st |-> st1, output |-> c.out, width |-> c.width,
                  states |-> c.states, calls |-> <<1>>,
                  inner_output |-> c.out, inner_states |-> c.states,
                  passed_inputs |-> inputs, passed_states |-> states]
        ELSE LET r == hybrid_forward(kind, lvl, st1, inputs, width, states)
             IN  [r EXCEPT !.calls = <<lvl>> \o @]

\* ---------------------------------------------------------------- ArgProj
\* ArgProj.__init__: one gluon.nn.Dense(dim, flatten=False, dtype, prefix) per
\* item of args_dim, in the order of args_dim.items()
ArgProjInit(dims, dtype) ==
    [i \in 1..Len(dims) |->
        [units |-> dims[i][2], flatten |-> FALSE, dtype |-> dtype,
         prefix |-> dims[i][1]]]

\* proj(x) of one Dense block: with flatten=False the leading dimensions are
\* kept and the trailing one becomes units; a block already initialised for
\* another input width rejects x
DenseForward(dense, inu, x) ==
    IF inu # 0 /\ inu # Final(x.shape)
    THEN [raised |-> "MXNetError"]
    ELSE [raised |-> "none",
          value |-> [shape |-> (IF dense.flatten THEN <<x.shape[1]>> ELSE Front(x.shape))
                                   \o <<dense.units>>,
                     by |-> dense.prefix, dtype |-> dense.dtype, of |-> x.id,
                     mapped |-> "raw"]]

\* the callables used as domain_map:
\*   "identity": returns its arguments as they are
\*   "gaussian": (mu, sigma) -> (mu.squeeze(-1), softplus(sigma).squeeze(-1))
\*   "abstract": Output.domain_map / DistributionOutput.domain_map
DomainMaps == {"identity", "gaussian", "abstract"}

DomainMapCall(dm, args) ==
    CASE dm = "abstract" -> [raised |-> "NotImplementedError"]
      [] dm = "gaussian" ->
            IF Len(args) # 2 THEN [raised |-> "TypeError"]
            ELSE IF \E i \in 1..2 : Final(args[i].shape) # 1
            THEN [raised |-> "MXNetError"]
            ELSE [raised |-> "none",
                  value |-> <<[args[1] EXCEPT !.shape = Front(@)],
                              [args[2] EXCEPT !.shape = Front(@), !.mapped = "softplus"]>>]
      [] OTHER -> [raised |-> "none", value |-> args]

\* faulty variant of ParamsUnbounded: the blocks are applied in reverse order
ParamsUnboundedReversed(blocks, inu, x) ==
    [i \in 1..Len(blocks) |->
        DenseForward(blocks[Len(blocks) + 1 - i], inu[Len(blocks) + 1 - i], x)]

\* params_unbounded = [proj(x) for proj in self.proj]
ParamsUnbounded(blocks, inu, x) ==
    [i \in 1..Len(blocks) |-> DenseForward(blocks[i], inu[i], x)]

\* ArgProj.hybrid_forward
ArgProjForward(blocks, inu, dm, x) ==
    LET ps == ParamsUnbounded(blocks, inu, x)
    IN  IF \E i \in 1..Len(ps) : ps[i].raised # "none"
        THEN [raised |-> "MXNetError", passed |-> << >>]
        ELSE LET args == [i \in 1..Len(ps) |-> ps[i].value]
                 r    == DomainMapCall(dm, args)
             IN  IF r.raised # "none"
                 THEN [raised |-> r.raised, passed |-> args]
                 ELSE [raised |-> "none", passed |-> args, value |-> r.value]

\* ---------------------------------------------------------------- Output, DistributionOutput
\* An output object is its class and what the class overrides.  "Output" and
\* "DistributionOutput" are the two classes of the notebook; "Concrete" is a
\* subclass of DistributionOutput that sets args_dim and distr_cls and
\* overrides event_shape and domain_map (and possibly value_in_support).
OutputDomainMap(cfg) ==
    IF cfg.cls = "Concrete" THEN cfg.domain_map ELSE "abstract"

\* DistributionOutput.event_shape
EventShape(cfg) ==
    IF cfg.cls = "Concrete"
    THEN [raised |-> "none", value |-> cfg.event_shape]
    ELSE [raised |-> "NotImplementedError"]

\* faulty variant of EventDim: a default of 0 where event_shape is not implemented
EventDimDefault(cfg) ==
    LET e == EventShape(cfg)
    IN  [raised |-> "none", value |-> IF e.raised # "none" THEN 0 ELSE Len(e.value)]

\* DistributionOutput.event_dim: len(self.event_shape)
EventDim(cfg) ==
    LET e == EventShape(cfg)
    IN  IF e.raised # "none" THEN e ELSE [raised |-> "none", value |-> Len(e.value)]

\* DistributionOutput.value_in_support, in tenths (0.0 is 0)
ValueInSupport(cfg) ==
    [raised |-> "none",
     value |-> IF cfg.cls = "Concrete" THEN cfg.value_in_support ELSE 0]

\* faulty variant of Distribution: the raw distribution when either of loc, scale is unset
DistributionEitherNone(cfg, distr_args, loc, scale) ==
    IF loc = None \/ scale = None
    THEN [type |-> cfg.distr_cls, args |-> distr_args]
    ELSE [type |-> "AffineTransformedDistribution",
          base |-> [type |-> cfg.distr_cls, args |-> distr_args],
          loc |-> loc, scale |-> scale]

\* DistributionOutput.distribution
Distribution(cfg, distr_args, loc, scale) ==
    IF loc = None /\ scale = None
    THEN [type |-> cfg.distr_cls, args |-> distr_args]
    ELSE [type |-> "AffineTransformedDistribution",
          base |-> [type |-> cfg.distr_cls, args |-> distr_args],
          loc |-> loc, scale |-> scale]

\* ---------------------------------------------------------------- inputs
\* entry (b, t) of the input sequence; every entry is positive and distinct
InputAt(b, t) == 10 * b + t

\* the sequence handed to unroll: a merged tensor in the given layout, or a
\* list of per-step tensors
MkInputs(is_tensor, layout, batch, steps) ==
    IF is_tensor
    THEN Tensor(IF layout = "NTC"
                THEN [b \in 1..batch |-> [t \in 1..steps |-> InputAt(b, t)]]
                ELSE [t \in 1..steps |-> [b \in 1..batch |-> InputAt(b, t)]], 1)
    ELSE StepList([t \in 1..steps |-> [b \in 1..batch |-> InputAt(b, t)]], 1)

MergeArgs == {"None", "True", "False"}

ValidLengths(batch, length) ==
    {None} \cup {Some(v) : v \in [1..batch -> 1..length]}

BeginStates(batch) == {None, Some([b \in 1..batch |-> 100])}

\* no call is in progress and no result is waiting for the caller
Idle == [op |-> "idle"]

DefaultOutput == [cls |-> "Output", dtype |-> "float32"]

\* ---------------------------------------------------------------- the residual cell as a state machine
\* ModifierCell.__init__ marks the wrapped cell as modified; every cell starts
\* with its counter reset
Init ==
    /\ base_kind \in BaseKinds
    /\ depth \in 1..MaxDepth
    /\ modified = [i \in 1..(depth + 1) |-> i <= depth]
    /\ counter = [i \in 1..(depth + 1) |-> -1]
    /\ args_dim = << >>
    /\ proj = << >>
    /\ in_units = << >>
    /\ domain_map = "identity"
    /\ out_cfg = DefaultOutput
    /\ last = Idle

\* the caller has taken the returned value (or caught the exception)
Return ==
    /\ last # Idle
    /\ last' = Idle
    /\ UNCHANGED <<base_kind, depth, modified, counter, args_dim, proj, in_units,
                   domain_map, out_cfg>>

ProjUnchanged == UNCHANGED <<args_dim, proj, in_units, domain_map, out_cfg>>
CellUnchanged == UNCHANGED <<base_kind, depth, modified, counter>>

\* the outermost ResidualCell's unroll(length, inputs, begin_state, layout,
\* merge_outputs, valid_length)
Unroll ==
    \E length \in 0..MaxLen, steps \in 0..MaxLen, batch \in 1..MaxBatch,
       is_tensor \in BOOLEAN, layout \in Layouts, merge_outputs \in MergeArgs :
      /\ last = Idle
      /\ steps - length \in {-1, 0, 1}
      /\ is_tensor => steps >= 1
      /\ \E begin_state \in BeginStates(batch),
            valid_length \in ValidLengths(batch, length) :
           \E inputs \in {MkInputs(is_tensor, layout, batch, steps)} :
           \E r \in {ResidualUnroll(base_kind, depth + 1,
                                    [modified |-> modified, counter |-> counter],
                                    length, inputs, begin_state, layout, merge_outputs,
                                    valid_length)} :
           LET call == [op |-> "unroll", length |-> length, inputs |-> inputs,
                        batch |-> batch, begin_state |-> begin_state,
                        layout |-> layout, merge_outputs |-> merge_outputs,
                        valid_length |-> valid_length, raised |-> r.raised]
           IN  /\ modified' = r.st.modified
               /\ counter' = r.st.counter
               /\ last' = IF r.raised # "none" THEN call
                          ELSE call @@ [outputs |-> r.outputs, states |-> r.states,
                                        raw |-> r.raw, inner |-> r.inner,
                                        inner_states |-> r.inner_states,
                                        added |-> r.added, merge |-> r.merge]
      /\ UNCHANGED <<base_kind, depth>>
      /\ ProjUnchanged

\* one call cell(inputs, states) of the outermost ResidualCell
Step ==
    \E batch \in 1..MaxBatch, v \in 0..2, s \in 0..1 :
      /\ last = Idle
      /\ counter[depth + 1] < MaxCounter
      /\ LET inputs == [b \in 1..batch |-> v + b]
             states == [b \in 1..batch |-> s * b]
             r == CellCall(base_kind, depth + 1,
                           [modified |-> modified, counter |-> counter],
                           inputs, 1, states)
         IN  /\ modified' = r.st.modified
             /\ counter' = r.st.counter
             /\ last' = [op |-> "step", inputs |-> inputs, states |-> states,
                         raised |-> r.raised, output |-> r.output,
                         new_states |-> r.states, calls |-> r.calls,
                         inner_output |-> r.inner_output,
                         inner_states |-> r.inner_states,
                         passed_inputs |-> r.passed_inputs,
                         passed_states |-> r.passed_states]
      /\ UNCHANGED <<base_kind, depth>>
      /\ ProjUnchanged

Next == Unroll \/ Step \/ Return

Spec == Init /\ [][Next]_vars

\* ---------------------------------------------------------------- the projection layer as a state machine
DTypes == {"float32", "float64"}

\* argument-width mappings (dicts keep insertion order)
ArgsDims ==
    { <<<<"mu", 1>>, <<"sigma", 1>>>>,
      <<<<"mu", 2>>, <<"Sigma", 4>>>>,
      <<<<"alpha", 1>>, <<"beta", 2>>, <<"gamma", 3>>>> }

\* the output objects: the two classes of the notebook and subclasses of
\* DistributionOutput in the way the docstrings ask for them
OutputObjects ==
    { [cls |-> "Output", dtype |-> "float32"],
      [cls |-> "DistributionOutput", dtype |-> "float32"] }
    \cup
    { [cls |-> "Concrete", dtype |-> "float32", distr_cls |-> c[1], args_dim |-> c[2],
       event_shape |-> c[3], domain_map |-> c[4], value_in_support |-> c[5]] :
      c \in { <<"Gaussian", <<<<"mu", 1>>, <<"sigma", 1>>>>, << >>, "gaussian", 0>>,
              <<"Gamma", <<<<"alpha", 1>>, <<"beta", 1>>>>, << >>, "gaussian", 5>>,
              <<"MultivariateGaussian", <<<<"mu", 2>>, <<"Sigma", 4>>>>, <<2>>,
                "identity", 0>>,
              <<"MatrixNormal", <<<<"loc", 4>>>>, <<2, 2>>, "identity", 0>> } }

InitProj ==
    /\ base_kind = "identity"
    /\ depth = 1
    /\ modified = <<TRUE, FALSE>>
    /\ counter = <<-1, -1>>
    /\ args_dim \in ArgsDims
    /\ domain_map \in DomainMaps
    /\ proj = ArgProjInit(args_dim, "float32")
    /\ in_units = [i \in 1..Len(args_dim) |-> 0]
    /\ out_cfg \in OutputObjects
    /\ last = Idle

\* ArgProj.__call__(x) on an input of shape (batch, hidden) or
\* (batch, steps, hidden)
Forward ==
    \E batch \in 1..MaxBatch, steps \in 0..MaxLen, hidden \in 1..2 :
      /\ last = Idle
      /\ \E x \in {[shape |-> IF steps = 0 THEN <<batch, hidden>>
                                ELSE <<batch, steps, hidden>>, id |-> "x"]} :
         \E r \in {ArgProjForward(proj, in_units, domain_map, x)} :
           /\ in_units' = IF r.passed = << >> THEN in_units
                          ELSE [i \in 1..Len(proj) |-> hidden]
           /\ last' = [op |-> "forward", x |-> x] @@ r
      /\ UNCHANGED <<args_dim, proj, domain_map, out_cfg>>
      /\ CellUnchanged

\* Output.get_args_proj: a new ArgProj from the object's args_dim, domain_map
\* and dtype
GetArgsProj ==
    /\ last = Idle
    /\ out_cfg.cls = "Concrete"
    /\ args_dim' = out_cfg.args_dim
    /\ proj' = ArgProjInit(out_cfg.args_dim, out_cfg.dtype)
    /\ in_units' = [i \in 1..Len(out_cfg.args_dim) |-> 0]
    /\ domain_map' = OutputDomainMap(out_cfg)
    /\ last' = [op |-> "get_args_proj"]
    /\ UNCHANGED out_cfg
    /\ CellUnchanged

\* the dtype setter of Output
SetDtype ==
    \E d \in DTypes :
      /\ last = Idle
      /\ out_cfg' = [out_cfg EXCEPT !.dtype = d]
      /\ last' = [op |-> "set_dtype", dtype |-> d]
      /\ UNCHANGED <<args_dim, proj, in_units, domain_map>>
      /\ CellUnchanged

\* reading one of the properties of a DistributionOutput
ReadProperty ==
    \E name \in {"event_shape", "event_dim", "value_in_support"} :
      /\ last = Idle
      /\ out_cfg.cls # "Output"
      /\ last' = [op |-> name] @@
                 (CASE name = "event_shape" -> EventShape(out_cfg)
                    [] name = "event_dim"   -> EventDim(out_cfg)
                    [] OTHER                -> ValueInSupport(out_cfg))
      /\ UNCHANGED <<args_dim, proj, in_units, domain_map, out_cfg>>
      /\ CellUnchanged

\* raw arguments for a direct domain_map call: n tensors of shape (batch, 1)
RawArgs(n, batch) ==
    [i \in 1..n |-> [shape |-> <<batch, 1>>, by |-> "arg", dtype |-> "float32",
                     of |-> "x", mapped |-> "raw"]]

\* out.domain_map(F, *args)
CallDomainMap ==
    \E n \in 1..2, batch \in 1..MaxBatch :
      /\ last = Idle
      /\ last' = [op |-> "domain_map", n |-> n] @@
                 DomainMapCall(OutputDomainMap(out_cfg), RawArgs(n, batch))
      /\ UNCHANGED <<args_dim, proj, in_units, domain_map, out_cfg>>
      /\ CellUnchanged

Optional(S) == {None} \cup {Some(v) : v \in S}

\* out.distribution(distr_args, loc, scale) on an object whose class sets distr_cls
CallDistribution ==
    \E distr_args \in {<<"a1">>, <<"a1", "a2">>},
       loc \in Optional({"loc"}), scale \in Optional({"scale"}) :
      /\ last = Idle
      /\ out_cfg.cls = "Concrete"
      /\ last' = [op |-> "distribution", distr_args |-> distr_args, loc |-> loc,
                  scale |-> scale,
                  result |-> Distribution(out_cfg, distr_args, loc, scale)]
      /\ UNCHANGED <<args_dim, proj, in_units, domain_map, out_cfg>>
      /\ CellUnchanged

NextProj ==
    \/ Forward
    \/ GetArgsProj
    \/ SetDtype
    \/ ReadProperty
    \/ CallDomainMap
    \/ CallDistribution
    \/ Return

SpecProj == InitProj /\ [][NextProj]_vars

\* ---------------------------------------------------------------- properties of ResidualCell
UnrollEnded == last.op = "unroll"
UnrollReturned == last.op = "unroll" /\ last.raised = "none"
Positions == {<<b, t>> : b \in 1..last.batch, t \in 1..last.length}
OutAt(b, t) == At(last.outputs, last.layout, b, t)
InnerAt(b, t) == At(last.inner, last.layout, b, t)
RawAt(b, t) == At(last.raw, last.layout, b, t)
AddedAt(b, t) == At(last.added, last.layout, b, t)
GivenAt(b, t) == At(last.inputs, last.layout, b, t)

\* C1: whenever a call to unroll has ended, by a return or by an exception,
\* the wrapped cell's _modified flag is True again.
C1_ModifiedRestoredOnEveryExit ==
    UnrollEnded => modified[depth]

\* C2 as stated: the combined output at every (b, t) is the innermost cell's
\* raw output plus the masked input added one time, for nested wrappers too.
C2_AddedOnceOverInnermost ==
    UnrollReturned =>
        \A p \in Positions : OutAt(p[1], p[2]) = RawAt(p[1], p[2]) + AddedAt(p[1], p[2])

\* C2 amended: each ResidualCell adds the masked input one time to what the
\* cell it wraps returned; a wrapped ResidualCell has added it as well, so
\* over depth wrappers the output is the innermost output plus depth times
\* the masked input.
C2_AddedOncePerWrapper ==
    UnrollReturned =>
        \A p \in Positions :
            /\ OutAt(p[1], p[2]) = InnerAt(p[1], p[2]) + AddedAt(p[1], p[2])
            /\ OutAt(p[1], p[2]) = RawAt(p[1], p[2]) + depth * AddedAt(p[1], p[2])

C2_Witness ==
    /\ UnrollReturned
    /\ depth = 2
    /\ last.length = MaxLen
    /\ \E p \in Positions : OutAt(p[1], p[2]) = RawAt(p[1], p[2]) + 2 * GivenAt(p[1], p[2])

\* C3: with a valid_length, at every timestep at or beyond a sequence's valid
\* length the input contributes zero and the output is the inner output; before
\* it the output is inner output plus input; in both output conventions.
C3_MaskedInputContributesZero ==
    (UnrollReturned /\ last.valid_length # None) =>
        \A p \in Positions :
            IF p[2] - 1 >= last.valid_length[1][p[1]]
            THEN /\ AddedAt(p[1], p[2]) = 0
                 /\ OutAt(p[1], p[2]) = InnerAt(p[1], p[2])
            ELSE OutAt(p[1], p[2]) = InnerAt(p[1], p[2]) + GivenAt(p[1], p[2])

C3_Witness ==
    /\ UnrollReturned
    /\ last.valid_length # None
    /\ ~last.outputs.isTensor
    /\ last.batch = 2
    /\ last.valid_length[1][1] < last.length
    /\ last.valid_length[1][2] = last.length
    /\ OutAt(1, last.length) = InnerAt(1, last.length)
    /\ OutAt(2, last.length) = InnerAt(2, last.length) + GivenAt(2, last.length)

\* C4: without a valid_length the output has exactly length timesteps, each
\* the inner output plus the input, and the states are the inner unroll's.
C4_UnmaskedSumAndStates ==
    (UnrollReturned /\ last.valid_length = None) =>
        /\ Steps(last.outputs, last.layout) = last.length
        /\ \A p \in Positions :
               OutAt(p[1], p[2]) = InnerAt(p[1], p[2]) + GivenAt(p[1], p[2])
        /\ last.states = last.inner_states

C4_Witness ==
    /\ UnrollReturned
    /\ last.valid_length = None
    /\ last.outputs.isTensor
    /\ base_kind = "ones"
    /\ depth = 1
    /\ last.length = MaxLen
    /\ \A p \in Positions : OutAt(p[1], p[2]) = 1 + GivenAt(p[1], p[2])

StepReturned == last.op = "step" /\ last.raised = "none"

\* C5: a single step calls the inner cell once with the same inputs and
\* states and returns (inner output + inputs, inner new states); around an
\* identity cell that is (2 * inputs, states).
C5_SingleStepResidual ==
    StepReturned =>
        /\ Cardinality({i \in 1..Len(last.calls) : last.calls[i] = depth}) = 1
        /\ last.passed_inputs = last.inputs
        /\ last.passed_states = last.states
        /\ last.output = [b \in 1..Len(last.inputs) |->
                             last.inner_output[b] + last.inputs[b]]
        /\ last.new_states = last.inner_states
        /\ (base_kind = "identity" /\ depth = 1) =>
               /\ last.output = [b \in 1..Len(last.inputs) |-> 2 * last.inputs[b]]
               /\ last.new_states = last.states

C5_Witness ==
    /\ StepReturned
    /\ base_kind = "identity"
    /\ depth = 1
    /\ Len(last.inputs) = 2
    /\ last.output = <<2 * last.inputs[1], 2 * last.inputs[2]>>
    /\ last.states # <<0, 0>>

\* C6: the inputs that are added have the convention of the inner outputs
\* (merged with merged, list with list), inferred from the inner outputs when
\* merge_outputs is None; the addition never pairs a tensor with a list.
C6_InputsFollowInnerConvention ==
    UnrollEnded =>
        /\ last.raised # "TypeError"
        /\ last.raised = "none" =>
              /\ last.added.isTensor = last.inner.isTensor
              /\ last.merge_outputs = "None" => last.merge = last.inner.isTensor
              /\ last.merge_outputs # "None" => last.merge = (last.merge_outputs = "True")

C6_Witness ==
    /\ UnrollReturned
    /\ last.merge_outputs = "None"
    /\ last.valid_length # None
    /\ ~last.inputs.isTensor
    /\ last.inner.isTensor
    /\ last.added.isTensor

\* C7: unroll with length 0 does not raise.
C7_ZeroLengthDoesNotRaise ==
    (UnrollEnded /\ last.length = 0) => last.raised = "none"

\* ---------------------------------------------------------------- properties of the projection layer
\* C8: distribution returns the raw distr_cls(*distr_args) exactly when loc and
\* scale are both None, and otherwise the affine wrapper around it with loc and
\* scale passed through.
C8_DistributionWrapsUnlessBothNone ==
    last.op = "distribution" =>
        LET raw == [type |-> out_cfg.distr_cls, args |-> last.distr_args]
        IN  /\ (last.loc = None /\ last.scale = None) <=> last.result = raw
            /\ (last.loc # None \/ last.scale # None) =>
                   last.result = [type |-> "AffineTransformedDistribution",
                                  base |-> raw, loc |-> last.loc, scale |-> last.scale]

C8_Witness ==
    /\ last.op = "distribution"
    /\ last.loc = None
    /\ last.scale # None
    /\ last.result.type = "AffineTransformedDistribution"
    /\ last.result.loc = None

\* C9: a forward call applies the Dense blocks built at construction, in the
\* order of the mapping, each to the same x; block i gives a tensor of trailing
\* width w_i with the leading dimensions of x; the tuple goes to domain_map in
\* that order and domain_map's result is returned as it is.
C9_ProjectionInOrder ==
    /\ Len(proj) = Len(args_dim)
    /\ \A i \in 1..Len(proj) :
           proj[i].units = args_dim[i][2] /\ proj[i].prefix = args_dim[i][1]
    /\ (last.op = "forward" /\ last.passed # << >>) =>
           /\ Len(last.passed) = Len(args_dim)
           /\ \A i \in 1..Len(args_dim) :
                  /\ last.passed[i].shape = Front(last.x.shape) \o <<args_dim[i][2]>>
                  /\ last.passed[i].by = args_dim[i][1]
                  /\ last.passed[i].of = last.x.id
           /\ (domain_map = "identity") =>
                  (last.raised = "none" /\ last.value = last.passed)
           /\ (domain_map = "gaussian" /\ last.raised = "none") =>
                  /\ Len(last.value) = 2
                  /\ \A i \in 1..2 : last.value[i].shape = Front(last.x.shape)
                                     /\ last.value[i].by = args_dim[i][1]

C9_Witness ==
    /\ last.op = "forward"
    /\ last.raised = "none"
    /\ domain_map = "identity"
    /\ Len(args_dim) = 3
    /\ last.x.shape = <<2, 2>>
    /\ \A i \in 1..3 : last.value[i].shape = <<2, i>>
    /\ in_units = <<2, 2, 2>>

\* C10: on the abstract base domain_map, event_shape and event_dim raise
\* NotImplementedError, value_in_support returns 0.0, and for a concrete
\* class event_dim is len(event_shape).
C10_AbstractAccessorsRaise ==
    /\ (out_cfg.cls # "Concrete" /\ last.op = "domain_map") =>
           last.raised = "NotImplementedError"
    /\ (out_cfg.cls = "DistributionOutput" /\ last.op \in {"event_shape", "event_dim"}) =>
           last.raised = "NotImplementedError"
    /\ (out_cfg.cls = "DistributionOutput" /\ last.op = "value_in_support") =>
           (last.raised = "none" /\ last.value = 0)
    /\ (out_cfg.cls = "Concrete" /\ last.op = "event_dim") =>
           (last.raised = "none" /\ last.value = Len(out_cfg.event_shape))

C10_Witness ==
    /\ out_cfg.cls = "DistributionOutput"
    /\ last.op = "event_dim"
    /\ last.raised = "NotImplementedError"

=============================================================================
